---- MODULE Spec2Model ----
(***************************************************************************)
(* A model of src/main.rs: the Wordl solver.  A String is a sequence of     *)
(* one-character strings, a Letter is a record [kind, c], a Word (one       *)
(* round of feedback) is a sequence of WordLen Letters.  Rust indices are   *)
(* 0-based; the sequences here are 1-based, so idx in the source is i - 1.  *)
(***************************************************************************)
EXTENDS Integers, Sequences, FiniteSets, TLC

\* dictionary, guesses: the fields of Wordl.  suggestion: the Vec the last call of
\* suggest returned.  panicked: the program died of a panic.  lastCall: the
\* last method called, with its argument.  loaded: the dictionary as main
\* loaded it.  solution: the word the player is after (the feedback's source).
VARIABLES dictionary, guesses, suggestion, lastCall, panicked, loaded, solution

vars == <<dictionary, guesses, suggestion, lastCall, panicked, loaded, solution>>

\* type Word = [Letter; 5]; also the size of the hits, excludes_at and freq arrays
WordLen == 5

\* ------------------------------------------------------------------ bounds
\* rounds of feedback a run records
MaxGuesses == 2
\* largest upto handed to suggest
MaxUpto == 2

\* -------------------------------------------------------------- characters
\* The characters the model uses, in ascending char order (the order of
\* char's Ord, which is what BTreeSet<String> iterates by).
Alphabet == <<"a", "c", "e", "g", "h", "m", "t", "y", "z">>

CharOrd(c) == CHOOSE i \in 1..Len(Alphabet) : Alphabet[i] = c

\* String's Ord: lexicographic by char, a proper prefix first
RECURSIVE StrLess(_, _)
StrLess(a, b) ==
    IF b = <<>> THEN FALSE
    ELSE IF a = <<>> THEN TRUE
    ELSE IF Head(a) # Head(b) THEN CharOrd(Head(a)) < CharOrd(Head(b))
    ELSE StrLess(Tail(a), Tail(b))

\* BTreeSet<String>::iter(): the elements in ascending order
RECURSIVE iter(_)
iter(set) ==
    IF set = {} THEN <<>>
    ELSE LET m == CHOOSE x \in set : \A y \in set \ {x} : StrLess(x, y)
         IN  <<m>> \o iter(set \ {m})

\* ----------------------------------------------------------------- Letter
Hit(ch) == [kind |-> "Hit", c |-> ch]
Miss(ch) == [kind |-> "Miss", c |-> ch]
Contains(ch) == [kind |-> "Contains", c |-> ch]

\* Option::None of make_hits' [Option<char>; 5]
None == "None"

\* Vec::iter().position(|s| *s == c): the first index holding c, 0 when absent
position(v, ch) ==
    IF \E i \in 1..Len(v) : v[i] = ch
    THEN CHOOSE i \in 1..Len(v) : v[i] = ch /\ \A j \in 1..(i - 1) : v[j] # ch
    ELSE 0

\* Vec::remove(pos)
remove(v, pos) == SubSeq(v, 1, pos - 1) \o SubSeq(v, pos + 1, Len(v))

\* --------------------------------------------------------------- CharFreq
\* make_char_frequency: result[idx] after every word's chars were inserted.
\* counts holds how many words have c at idx, total how many have a char there.
make_char_frequency(vals) ==
    [i \in 1..WordLen |->
        [counts |-> [ch \in {Alphabet[k] : k \in 1..Len(Alphabet)} |->
                        Cardinality({w \in vals : Len(w) >= i /\ w[i] = ch})],
         total  |-> Cardinality({w \in vals : Len(w) >= i})]]

\* result[idx].insert(c) with idx >= 5 indexes past the array: a panic
make_char_frequency_panics(vals) == \E w \in vals : Len(w) > WordLen

\* CharFreq::rate, as the exact fraction <<numerator, denominator>> the f64
\* quotient approximates; the rounding of f64 is not modelled, the sums and
\* comparisons below are exact
rate(cf, ch) ==
    IF cf.total = 0 THEN <<0, 1>> ELSE <<cf.counts[ch], cf.total>>

RatAdd(x, y) == <<x[1] * y[2] + y[1] * x[2], x[2] * y[2]>>
RatLess(x, y) == x[1] * y[2] < y[1] * x[2]
RatEq(x, y) == x[1] * y[2] = y[1] * x[2]

\* the score closure of suggest: the fold of freq[idx].rate(c) from 0.0
RECURSIVE scoreFrom(_, _, _, _)
scoreFrom(freq, s, i, acc) ==
    IF i > Len(s) THEN acc
    ELSE scoreFrom(freq, s, i + 1, RatAdd(acc, rate(freq[i], s[i])))

score(freq, s) == scoreFrom(freq, s, 1, <<0, 1>>)

\* the comparator handed to sort_by: Less exactly when sa < sb
cmpLess(freq, a, b) == RatLess(score(freq, a), score(freq, b))

\* Vec::sort_by is stable: an element goes after every element that does not
\* compare Greater than it
RECURSIVE insertSorted(_, _, _)
insertSorted(freq, sorted, x) ==
    IF sorted = <<>> THEN <<x>>
    ELSE IF cmpLess(freq, x, Head(sorted)) THEN <<x>> \o sorted
    ELSE <<Head(sorted)>> \o insertSorted(freq, Tail(sorted), x)

RECURSIVE sort_by(_, _)
sort_by(freq, v) ==
    IF v = <<>> THEN <<>>
    ELSE insertSorted(freq, sort_by(freq, SubSeq(v, 1, Len(v) - 1)), v[Len(v)])

\* take with its count off by one
take_OneShort(v, upto) == SubSeq(v, 1, IF upto - 1 < Len(v) THEN upto - 1 ELSE Len(v))

\* Iterator::take(upto)
take(v, upto) == SubSeq(v, 1, IF upto < Len(v) THEN upto ELSE Len(v))

\* Wordl::suggest
suggest(dict, upto) ==
    take(sort_by(make_char_frequency(dict), iter(dict)), upto)

\* ------------------------------------------------------------ constraints
\* the filter_map of make_contains: the Contains and Hit chars of one round
RECURSIVE instanceOf(_)
instanceOf(w) ==
    IF w = <<>> THEN <<>>
    ELSE (IF Head(w).kind \in {"Contains", "Hit"} THEN <<Head(w).c>> ELSE <<>>)
         \o instanceOf(Tail(w))

\* the fold with no cancellation: every required char of every round is pushed
RECURSIVE foldInstance_NoCancel(_, _, _)
foldInstance_NoCancel(acc, stack, instance) ==
    IF instance = <<>> THEN acc
    ELSE foldInstance_NoCancel(Append(acc, Head(instance)), stack, Tail(instance))

\* the fold removing the char it found from acc, not only from the copy
RECURSIVE foldInstance_CancelsAcc(_, _, _)
foldInstance_CancelsAcc(acc, stack, instance) ==
    IF instance = <<>> THEN acc
    ELSE LET ch == Head(instance)
             pos == position(stack, ch)
         IN  IF pos # 0
             THEN foldInstance_CancelsAcc(remove(acc, position(acc, ch)),
                                          remove(stack, pos), Tail(instance))
             ELSE foldInstance_CancelsAcc(Append(acc, ch), stack, Tail(instance))

\* the body of the fold closure of make_contains: a char found in stack (a copy
\* of acc) is removed from stack, any other is pushed onto acc
RECURSIVE foldInstance(_, _, _)
foldInstance(acc, stack, instance) ==
    IF instance = <<>> THEN acc
    ELSE LET ch == Head(instance)
             pos == position(stack, ch)
         IN  IF pos # 0
             THEN foldInstance(acc, remove(stack, pos), Tail(instance))
             ELSE foldInstance(Append(acc, ch), stack, Tail(instance))

\* Wordl::make_contains
RECURSIVE make_contains(_)
make_contains(words) ==
    IF words = <<>> THEN <<>>
    ELSE LET acc == make_contains(SubSeq(words, 1, Len(words) - 1))
         IN  foldInstance(acc, acc, instanceOf(words[Len(words)]))

\* Wordl::make_hits: the last Hit recorded at each index
make_hits(words) ==
    [i \in 1..WordLen |->
        LET rounds == {r \in 1..Len(words) : words[r][i].kind = "Hit"}
        IN  IF rounds = {} THEN None
            ELSE words[CHOOSE r \in rounds : \A q \in rounds : q <= r][i].c]

\* Wordl::make_excludes_at
make_excludes_at(words) ==
    [i \in 1..WordLen |->
        {words[r][i].c : r \in {q \in 1..Len(words) : words[q][i].kind = "Contains"}}]

\* the excludes set of make_is_valid: every Miss char of the history
make_excludes(words) ==
    UNION {{words[r][i].c : i \in {j \in 1..WordLen : words[r][j].kind = "Miss"}}
           : r \in 1..Len(words)}

\* Wordl::make_is_valid: what the returned closure captures
make_is_valid(words) ==
    [contains    |-> make_contains(words),
     hits        |-> make_hits(words),
     excludes    |-> make_excludes(words),
     excludes_at |-> make_excludes_at(words)]

\* the scan dropping every pending instance of a char it meets, not one
RECURSIVE scan_ConsumesAll(_, _, _, _)
scan_ConsumesAll(f, s, i, contains) ==
    IF i > Len(s) THEN (IF Len(contains) > 0 THEN "false" ELSE "true")
    ELSE LET ch == s[i]
             rest == SelectSeq(contains, LAMBDA x : x # ch)
         IN  IF ch \in f.excludes THEN "false"
             ELSE IF i > WordLen THEN "panic"
             ELSE IF f.hits[i] # None /\ f.hits[i] # ch THEN "false"
             ELSE IF ch \in f.excludes_at[i] THEN "false"
             ELSE scan_ConsumesAll(f, s, i + 1, rest)

\* the for loop of the closure, from 1-based index i with the local copy
\* contains: "true" and "false" are the closure's return values, "panic" is
\* hits[idx] indexed with idx >= 5
RECURSIVE scan(_, _, _, _)
scan(f, s, i, contains) ==
    IF i > Len(s) THEN (IF Len(contains) > 0 THEN "false" ELSE "true")
    ELSE LET ch == s[i]
             pos == position(contains, ch)
             rest == IF pos # 0 THEN remove(contains, pos) ELSE contains
         IN  IF ch \in f.excludes THEN "false"
             ELSE IF i > WordLen THEN "panic"
             ELSE IF f.hits[i] # None /\ f.hits[i] # ch THEN "false"
             ELSE IF ch \in f.excludes_at[i] THEN "false"
             ELSE scan(f, s, i + 1, rest)

\* a call of the closure make_is_valid returned
valid(f, s) == scan(f, s, 1, f.contains)

\* BTreeSet::retain(|k| valid(k)) visits every word: it panics when a call does
retain_panics(dict, f) == \E k \in dict : valid(f, k) = "panic"

retain(dict, f) == {k \in dict : valid(f, k) = "true"}

\* ------------------------------------------------------------------ inputs
\* the history of tests::test_valid and tests::contains_creates_expected_vector
test_words ==
    << <<Miss("c"), Miss("c"), Contains("e"), Miss("c"), Miss("c")>>,
       <<Contains("e"), Miss("c"), Contains("g"), Miss("c"), Miss("c")>>,
       <<Contains("e"), Contains("g"), Contains("g"), Miss("c"), Miss("c")>>,
       <<Miss("c"), Miss("c"), Miss("e"), Miss("c"), Contains("y")>> >>

str_match == <<"m", "a", "t", "c", "h">>
str_eggyy == <<"e", "g", "g", "y", "y">>
str_eggzz == <<"e", "g", "g", "z", "z">>

\* words of five letters for the dictionary and the guesses
str_teach == <<"t", "e", "a", "c", "h">>
str_teeth == <<"t", "e", "e", "t", "h">>
str_hatch == <<"h", "a", "t", "c", "h">>
str_cheat == <<"c", "h", "e", "a", "t">>
str_theta == <<"t", "h", "e", "t", "a">>

\* lines of words.txt that are not five letters long (main inserts every line)
str_empty == <<>>
str_egg == <<"e", "g", "g">>
str_eggy == <<"e", "g", "g", "y">>
str_eggyyy == <<"e", "g", "g", "y", "y", "y">>
str_eggyyc == <<"e", "g", "g", "y", "y", "c">>

\* every string of length n over the characters cs
RECURSIVE Strings(_, _)
Strings(cs, n) ==
    IF n = 0 THEN {<<>>}
    ELSE {Append(s, ch) : s \in Strings(cs, n - 1), ch \in cs}

\* ------------------------------------------------------------------ Wordl
\* guess putting the record at the front of the history
guess_Prepends(self, word) ==
    LET gs == <<word>> \o self.guesses
    IN  [dictionary |-> retain(self.dictionary, make_is_valid(gs)),
         guesses    |-> gs]

\* Wordl::guess on self = [dictionary, guesses]
guess(self, word) ==
    LET gs == Append(self.guesses, word)
    IN  [dictionary |-> retain(self.dictionary, make_is_valid(gs)),
         guesses    |-> gs]

guess_panics(self, word) ==
    retain_panics(self.dictionary, make_is_valid(Append(self.guesses, word)))

\* ------------------------------------------------------------------ actions
\* Wordl::guess: push the record, rebuild the predicate from the whole
\* history, retain the words it accepts.  A panic ends the program.
GuessFrom(records, limit) ==
    \E word \in records :
        /\ ~panicked
        /\ Len(guesses) < limit
        /\ LET self == [dictionary |-> dictionary, guesses |-> guesses]
               after == guess(self, word)
           IN  IF guess_panics(self, word)
               THEN /\ panicked' = TRUE
                    /\ guesses' = Append(guesses, word)
                    /\ dictionary' = dictionary
               ELSE /\ panicked' = FALSE
                    /\ guesses' = after.guesses
                    /\ dictionary' = after.dictionary
        /\ lastCall' = <<"guess", word>>
        /\ UNCHANGED <<suggestion, loaded, solution>>

\* Wordl::suggest(upto), as main calls it before and after the guesses
Suggest ==
    \E upto \in 0..MaxUpto :
        /\ ~panicked
        /\ IF make_char_frequency_panics(dictionary)
           THEN /\ panicked' = TRUE
                /\ suggestion' = suggestion
           ELSE /\ panicked' = FALSE
                /\ suggestion' = suggest(dictionary, upto)
        /\ lastCall' = <<"suggest", upto>>
        /\ UNCHANGED <<dictionary, guesses, loaded, solution>>

\* main after the loading loop: Wordl::default() with the lines inserted
InitWith(dicts) ==
    /\ dictionary \in dicts
    /\ loaded = dictionary
    /\ guesses = <<>>
    /\ suggestion = <<>>
    /\ lastCall = <<"default">>
    /\ panicked = FALSE
    /\ solution = <<>>

\* ---------------------------------------------- the solver on 5-letter words
WordPool == {str_match, str_eggyy, str_eggzz, str_teach}

GuessRecords ==
    {test_words[r] : r \in 1..Len(test_words)} \cup
    { <<Hit("e"), Hit("g"), Miss("a"), Miss("c"), Contains("y")>>,
      <<Miss("t"), Hit("a"), Contains("m"), Miss("e"), Miss("z")>>,
      <<Hit("m"), Contains("t"), Miss("g"), Hit("c"), Hit("h")>>,
      <<Miss("y"), Miss("y"), Miss("y"), Miss("y"), Miss("y")>> }

Init == InitWith(SUBSET WordPool)

Next == GuessFrom(GuessRecords, MaxGuesses) \/ Suggest

Spec == Init /\ [][Next]_vars

\* ------------------------------------------------- the history of the tests
\* The records of test_words in any order, on the dictionaries over the three
\* words of the end-to-end scenario.
TestPool == {str_match, str_eggyy, str_eggzz}

InitTest == InitWith(SUBSET TestPool)

NextTest ==
    GuessFrom({test_words[r] : r \in 1..Len(test_words)}, Len(test_words)) \/ Suggest

SpecTest == InitTest /\ [][NextTest]_vars

\* ------------------------------------------- the predicate on every history
\* Every record whose indices 2 and 4 hold a Hit or a Contains of either of two
\* chars or a Miss of the first (a Miss of each would reject every candidate),
\* the other indices a Miss of a char no candidate holds; the dictionary is
\* every string of five of the two chars.
ScanChars == {"e", "g"}

ScanOutcomes == {Hit(ch) : ch \in ScanChars} \cup {Contains(ch) : ch \in ScanChars}
                \cup {Miss("e")}

ScanRecords == {<<Miss("c"), x, Miss("c"), y, Miss("c")>> : x, y \in ScanOutcomes}

ScanWords == Strings(ScanChars, WordLen)

InitValid == InitWith({ScanWords})

NextValid == GuessFrom(ScanRecords, MaxGuesses)

SpecValid == InitValid /\ [][NextValid]_vars

\* ------------------------------------------------- play with true feedback
\* the standard rule, from index i on: a Hit where the guess has the
\* solution's char; a Contains while the solution holds more of the char than
\* the guess's Hits of it and its earlier Contains of it; a Miss otherwise
RECURSIVE FeedbackFrom(_, _, _, _)
FeedbackFrom(g, sol, i, acc) ==
    IF i > Len(g) THEN acc
    ELSE LET ch == g[i]
             inSol == Cardinality({j \in 1..Len(sol) : sol[j] = ch})
             hits == Cardinality({j \in 1..Len(g) : g[j] = ch /\ sol[j] = ch})
             earlier == Cardinality({j \in 1..Len(acc) : acc[j] = Contains(ch)})
         IN  FeedbackFrom(g, sol, i + 1,
                 Append(acc, IF sol[i] = ch THEN Hit(ch)
                             ELSE IF inSol - hits - earlier > 0 THEN Contains(ch)
                             ELSE Miss(ch)))

Feedback(g, sol) == FeedbackFrom(g, sol, 1, <<>>)

PlayWords == {str_match, str_hatch, str_teach, str_cheat, str_teeth, str_theta}

InitPlay ==
    /\ dictionary = PlayWords
    /\ loaded = dictionary
    /\ solution \in dictionary
    /\ guesses = <<>>
    /\ suggestion = <<>>
    /\ lastCall = <<"default">>
    /\ panicked = FALSE

NextPlay == GuessFrom({Feedback(g, solution) : g \in PlayWords}, MaxGuesses)

SpecPlay == InitPlay /\ [][NextPlay]_vars

\* --------------------------------------- lines that are not five chars long
LenPool == {str_empty, str_egg, str_eggy, str_eggyy, str_eggyyy, str_eggyyc}

LenRecords ==
    { test_words[1], test_words[2],
      <<Hit("e"), Hit("g"), Miss("a"), Miss("t"), Contains("y")>>,
      <<Miss("t"), Contains("g"), Hit("g"), Hit("y"), Hit("y")>> }

InitLen == InitWith(SUBSET LenPool)

NextLen == GuessFrom(LenRecords, MaxGuesses) \/ Suggest

SpecLen == InitLen /\ [][NextLen]_vars

\* ================================================================== claims
\* occurrences of ch in the sequence v
Count(v, ch) == Cardinality({i \in 1..Len(v) : v[i] = ch})

Chars == {Alphabet[k] : k \in 1..Len(Alphabet)}

IsPrefix(a, b) == Len(a) <= Len(b) /\ SubSeq(b, 1, Len(a)) = a

\* the declarative test of a candidate against a history
NoExcluded(words, w) ==
    \A i \in 1..Len(w) : \A r \in 1..Len(words) : \A j \in 1..WordLen :
        words[r][j] # Miss(w[i])

LastHitsMatch(words, w) ==
    \A i \in 1..Len(w) :
        \A r \in 1..Len(words) :
            (/\ i <= WordLen
             /\ words[r][i].kind = "Hit"
             /\ \A q \in (r + 1)..Len(words) : words[q][i].kind # "Hit")
            => w[i] = words[r][i].c

NotContainsHere(words, w) ==
    \A i \in 1..Len(w) : \A r \in 1..Len(words) :
        i <= WordLen => words[r][i] # Contains(w[i])

HasRequired(words, w) ==
    LET required == make_contains(words)
    IN  \A i \in 1..Len(required) : Count(w, required[i]) >= Count(required, required[i])

Declarative(words, w) ==
    /\ NoExcluded(words, w)
    /\ LastHitsMatch(words, w)
    /\ NotContainsHere(words, w)
    /\ HasRequired(words, w)

\* ---- C1
\* C1: with accurate feedback for every guess, the solution, which was in the
\* loaded dictionary, is still in the dictionary after every call of guess.
C1_SolutionSurvives ==
    (solution \in loaded /\ ~panicked) => solution \in dictionary

\* ---- C2
\* C2: the predicate built from the four-round history of test_valid rejects
\* "match" and accepts "eggyy".
C2_TestValid ==
    guesses = test_words =>
        /\ valid(make_is_valid(guesses), str_match) = "false"
        /\ valid(make_is_valid(guesses), str_eggyy) = "true"

\* ---- C3
\* C3: from the dictionary {match, eggyy, eggzz}, after guess was called with
\* the four rounds of the test history in order, the dictionary is {eggyy}.
C3_EndToEnd ==
    (loaded = {str_match, str_eggyy, str_eggzz} /\ guesses = test_words)
        => dictionary = {str_eggyy}

\* ---- C4
\* the most Contains(ch) and Hit(ch) outcomes any single round holds
RequiredInRound(w, ch) ==
    Cardinality({i \in 1..WordLen : w[i] \in {Hit(ch), Contains(ch)}})

MaxInRound(words, ch) ==
    IF words = <<>> THEN 0
    ELSE LET r == CHOOSE x \in 1..Len(words) :
                      \A y \in 1..Len(words) :
                          RequiredInRound(words[y], ch) <= RequiredInRound(words[x], ch)
         IN  RequiredInRound(words[r], ch)

\* C4: make_contains holds each char as often as the round that requires it most
\* does (a later round's requirement cancels against the pending instances, k
\* in one round need k); the list only grows at its end as rounds are added,
\* and the tests' history gives e, g, g, y.
C4_RequiredMultiset ==
    /\ LET required == make_contains(guesses)
       IN  /\ \A ch \in Chars : Count(required, ch) = MaxInRound(guesses, ch)
           /\ \A k \in 0..Len(guesses) :
                 IsPrefix(make_contains(SubSeq(guesses, 1, k)), required)
    /\ make_contains(<<test_words[1], test_words[1]>>) = <<"e">>
    /\ make_contains(test_words) = <<"e", "g", "g", "y">>

\* a second round requires e twice after a first required it once: one
\* instance cancelled, one added
C4_Witness ==
    /\ Len(guesses) = 2
    /\ RequiredInRound(guesses[1], "e") = 1
    /\ RequiredInRound(guesses[2], "e") = 2
    /\ make_contains(guesses) = <<"e", "e">>

\* ---- C5
\* the claimed ranking: descending score, equal scores in string order
Before(freq, a, b) ==
    \/ RatLess(score(freq, b), score(freq, a))
    \/ RatEq(score(freq, a), score(freq, b)) /\ StrLess(a, b)

RECURSIVE Ranked(_, _)
Ranked(freq, set) ==
    IF set = {} THEN <<>>
    ELSE LET m == CHOOSE x \in set : \A y \in set \ {x} : Before(freq, x, y)
         IN  <<m>> \o Ranked(freq, set \ {m})

\* C5: suggest(N) returns the N highest-scoring words of the dictionary, best
\* first, equal scores in string order, and all words when there are fewer.
C5_TopDescending ==
    (lastCall[1] = "suggest" /\ ~panicked) =>
        suggestion = take(Ranked(make_char_frequency(dictionary), dictionary),
                          lastCall[2])

\* ---- C6
\* C6: every step leaves the dictionary a subset of what it was and of what was
\* loaded; suggest changes neither the dictionary nor the history; guess
\* appends its record to the history and changes no earlier record.
C6_FilterOnly ==
    [][ /\ dictionary' \subseteq dictionary
        /\ dictionary' \subseteq loaded
        /\ loaded' = loaded
        /\ lastCall'[1] = "suggest" =>
              (dictionary' = dictionary /\ guesses' = guesses)
        /\ lastCall'[1] = "guess" =>
              guesses' = Append(guesses, lastCall'[2]) ]_vars

\* two guesses were recorded and words were removed, others kept
C6_Witness ==
    /\ lastCall[1] = "guess"
    /\ Len(guesses) = 2
    /\ dictionary # loaded
    /\ dictionary # {}

C8_WrongLengthIsAnError ==
    guesses # <<>> =>
        \A s \in loaded :
            Len(s) # WordLen => valid(make_is_valid(guesses), s) = "panic"

\* the first WordLen chars of s pass the three reject checks
HeadPasses(words, s) ==
    LET h == SubSeq(s, 1, WordLen)
    IN  NoExcluded(words, h) /\ LastHitsMatch(words, h) /\ NotContainsHere(words, h)

\* What the code does with such words, which holds in every state of SpecLen:
\* the predicate checks no length.  A shorter word is scanned like any other
\* and accepted exactly when its chars pass the reject checks and hold every
\* required char, and guess keeps it.  A longer word is never accepted: it is
\* rejected when one of its first five chars or its sixth is rejected by a
\* check that runs before hits is indexed, and otherwise the call panics there
\* and guess dies with it.
LengthIsNotChecked ==
    LET f == make_is_valid(guesses)
    IN  /\ \A s \in LenPool :
              /\ Len(s) < WordLen =>
                    valid(f, s) = (IF Declarative(guesses, s) THEN "true" ELSE "false")
              /\ Len(s) > WordLen =>
                    valid(f, s) = (IF HeadPasses(guesses, s) /\ s[WordLen + 1] \notin f.excludes
                                   THEN "panic" ELSE "false")
        /\ (lastCall[1] = "guess" /\ ~panicked) =>
              dictionary = {s \in loaded : Len(s) <= WordLen /\ Declarative(guesses, s)}
        /\ (lastCall[1] = "guess" /\ panicked) =>
              \E s \in dictionary : Len(s) > WordLen

ConsistentHits(words) ==
    \A i \in 1..WordLen : \A r, q \in 1..Len(words) :
        (words[r][i].kind = "Hit" /\ words[q][i].kind = "Hit")
            => words[r][i].c = words[q][i].c

Accepted(words) ==
    LET f == make_is_valid(words) IN {w \in loaded : valid(f, w) = "true"}

\* C10: when no index was recorded as a Hit of two different chars, the
\* dictionary after the guesses is the set of loaded words the predicate of the
\* whole history accepts; a word that history accepts is accepted by every
\* shorter one, and guess called again with the last record removes nothing.
C10_IncrementalIsOneShot ==
    ConsistentHits(guesses) =>
        /\ dictionary = Accepted(guesses)
        /\ \A k \in 0..Len(guesses) :
              Accepted(guesses) \subseteq Accepted(SubSeq(guesses, 1, k))
        /\ guesses # <<>> =>
              guess([dictionary |-> dictionary, guesses |-> guesses],
                    guesses[Len(guesses)]).dictionary = dictionary

\* two rounds with the same Hit at one index, the second removing words the
\* first had kept and keeping others
C10_Witness ==
    /\ Len(guesses) = 2
    /\ ConsistentHits(guesses)
    /\ \E i \in 1..WordLen : guesses[1][i].kind = "Hit" /\ guesses[2][i].kind = "Hit"
    /\ dictionary # {}
    /\ dictionary # Accepted(<<guesses[1]>>)

====
